---- MODULE Spec2Model ----
(***************************************************************************)
(* Model of zerver/management/commands/create_user.py: one invocation of   *)
(* Command.handle.  The invocation is a sequential program; pc is its      *)
(* position.  The collaborators it calls (get_realm,                       *)
(* validate_email, input, print, open, initial_password, do_create_user)   *)
(* are recorded, in call order, in log.                                    *)
(***************************************************************************)
EXTENDS Integers, Sequences, FiniteSets, TLC

\* ------------------------------------------------------------------ bounds
\* Longest generated password-file contents, in characters.
MaxLen == 3
\* Most lines the operator types at the "Email: " prompt in one invocation.
MaxPrompts == 3

\* ------------------------------------------------------- values and strings
\* Python's None and a present value (Optional[T]); a string is a sequence of
\* characters, so Some(<<>>) is the empty string and differs from None.
None == <<>>
Some(v) == <<v>>
Val(o) == o[1]

Whitespace == {" ", "\n"}
Chars == Whitespace \cup {"s"}

RECURSIVE SeqsUpTo(_, _)
SeqsUpTo(S, n) ==
    IF n = 0 THEN {<<>>}
    ELSE LET shorter == SeqsUpTo(S, n - 1)
         IN  shorter \cup {Append(s, c) : s \in {t \in shorter : Len(t) = n - 1}, c \in S}

\* The contents "  secret123  \n" of the specification's example.
SecretFile == <<" ", " ", "s", "e", "c", "r", "e", "t", "1", "2", "3", " ", " ", "\n">>
Secret123 == <<"s", "e", "c", "r", "e", "t", "1", "2", "3">>

\* What f.read() can return for the password file.
FileContents == SeqsUpTo(Chars, MaxLen) \cup {SecretFile}

\* Values of the positional <email> and of a line typed at "Email: ".
Emails == {"a@x.org", "b@y.org", "bad", ""}
\* Values of the positional <full name> and of a line typed at "Full name: ".
FullNames == {"Al", ""}
\* Values of --password.
Passwords == {<<>>, <<"p">>, <<" ", "p", " ">>}
PasswordFiles == {"/pw"}
Realms == {"zulip", "lear"}

\* ------------------------------------------------------------ collaborators
\* django.core.validators.validate_email: TRUE when it returns, FALSE when it
\* raises ValidationError.
validate_email(e) == e \in {"a@x.org", "b@y.org"}

\* str.strip(): leading and trailing whitespace removed.
RECURSIVE lstrip(_)
lstrip(s) ==
    IF s # <<>> /\ Head(s) \in Whitespace THEN lstrip(Tail(s)) ELSE s

RECURSIVE rstrip(_)
rstrip(s) ==
    IF s # <<>> /\ s[Len(s)] \in Whitespace
    THEN rstrip(SubSeq(s, 1, Len(s) - 1)) ELSE s

\* Variant of strip: rstrip() in its place.
strip_trailing_only(s) == rstrip(s)

\* f.read().strip()
strip(s) == lstrip(rstrip(s))

\* The value initial_password(email) returns when the password is usable: a
\* function of the email alone.
GeneratedPassword(e) == <<"#", e>>

\* What initial_password(email) can return: a password, or None (unusable).
InitialPasswordResults(e) == {None, Some(GeneratedPassword(e))}

\* ------------------------------------------------------------------ messages
TosMsg == "You must confirm that this user has accepted the\nTerms of Service by passing --this-user-has-accepted-the-tos."
InvalidEmailMsg == "Invalid email address."
UsageMsg == "Either specify an email and full name as two\nparameters, or specify no parameters for interactive user creation."
UnusableMsg == "Password is unusable."
ExistsMsg == "User already exists."

NoExc == [type |-> "", msg |-> ""]
CommandError(m) == [type |-> "CommandError", msg |-> m]
\* validate_email rejecting its argument.
ValidationError == [type |-> "ValidationError", msg |-> "Enter a valid email address."]
\* open() failing on the password file.
FileError == [type |-> "OSError", msg |-> "No such file or directory"]
\* do_create_user failing with anything but IntegrityError.
OtherError == [type |-> "Exception", msg |-> "do_create_user failed"]
IntegrityError == [type |-> "IntegrityError", msg |-> "duplicate key"]

\* --------------------------------------------------------------------- state
VARIABLES
    options,    \* the options dict handle() receives
    pc,         \* position of the invocation
    realm,      \* local realm
    email,      \* local email
    full_name,  \* local full_name
    pw,         \* local pw
    exc,        \* the exception handle() has raised (NoExc: none)
    log         \* the collaborator calls made so far, in order

vars == <<options, pc, realm, email, full_name, pw, exc, log>>

\* One collaborator call: its name, its arguments, what it returned (None when
\* it returns nothing or raised) and what it raised (NoExc when it returned).
Call(op, args, ret, raised) == [op |-> op, args |-> args, ret |-> ret, raised |-> raised]

\* The option dicts: 'email' and 'full_name' have default=argparse.SUPPRESS, so
\* each is a key of the dict only when it was supplied.
BaseOptions ==
    [tos : BOOLEAN,
     password : {None} \cup {Some(p) : p \in Passwords},
     password_file : {None} \cup {Some(f) : f \in PasswordFiles},
     realm_id : Realms]

Positional ==
    {<<>>}
    \cup {("email" :> e) : e \in Emails}
    \cup {("full_name" :> n) : n \in FullNames}
    \cup {("email" :> e) @@ ("full_name" :> n) : e \in Emails, n \in FullNames}

OptionDicts == {p @@ b : p \in Positional, b \in BaseOptions}

Has(opts, key) == key \in DOMAIN opts

Init ==
    /\ options \in OptionDicts
    /\ pc = "start"
    /\ realm = None
    /\ email = None
    /\ full_name = None
    /\ pw = None
    /\ exc = NoExc
    /\ log = <<>>

Raise(e) ==
    /\ pc' = "raised"
    /\ exc' = e

Goto(p) ==
    /\ pc' = p
    /\ exc' = exc

GetRealmCall == Call("get_realm", <<options["realm_id"]>>, Some(options["realm_id"]), NoExc)

\* Variant of CheckTos: the realm is resolved before tos is tested.
CheckTos_after_get_realm ==
    /\ pc = "start"
    /\ log' = Append(log, GetRealmCall)
    /\ realm' = Some(options["realm_id"])
    /\ IF ~options["tos"]
       THEN Raise(CommandError(TosMsg))
       ELSE Goto("resolve")
    /\ UNCHANGED <<options, email, full_name, pw>>

\* if not options["tos"]: raise CommandError(...)
CheckTos ==
    /\ pc = "start"
    /\ IF ~options["tos"]
       THEN Raise(CommandError(TosMsg))
       ELSE Goto("get_realm")
    /\ UNCHANGED <<options, realm, email, full_name, pw, log>>

\* realm = self.get_realm(options); assert realm is not None
GetRealm ==
    /\ pc = "get_realm"
    /\ realm' = Some(options["realm_id"])
    /\ log' = Append(log, GetRealmCall)
    /\ Goto("resolve")
    /\ UNCHANGED <<options, email, full_name, pw>>

ValidateCall(e) ==
    Call("validate_email", <<e>>, None, IF validate_email(e) THEN NoExc ELSE ValidationError)

\* Variant of OnInvalidPositional: ValidationError handled like KeyError.
OnInvalidPositional_prompts == Goto("prompt_email")

\* except ValidationError: raise CommandError("Invalid email address.")
OnInvalidPositional == Raise(CommandError(InvalidEmailMsg))

\* Variant of UsageErrorCase: 'and' in place of 'or'.
UsageErrorCase_both(opts) == Has(opts, "email") /\ Has(opts, "full_name")

\* if 'email' in options or 'full_name' in options
UsageErrorCase(opts) == Has(opts, "email") \/ Has(opts, "full_name")

\* The outer try of lines 50-60, up to the start of the interactive loop.
ResolveArgs ==
    /\ pc = "resolve"
    /\ IF Has(options, "email") /\ Has(options, "full_name")
       THEN /\ email' = Some(options["email"])
            /\ full_name' = Some(options["full_name"])
            /\ log' = Append(log, ValidateCall(options["email"]))
            /\ IF validate_email(options["email"])
               THEN Goto("password")
               ELSE OnInvalidPositional
       ELSE \* KeyError: email is already bound when only full_name is missing
            /\ email' = IF Has(options, "email") THEN Some(options["email"]) ELSE email
            /\ full_name' = full_name
            /\ log' = log
            /\ IF UsageErrorCase(options)
               THEN Raise(CommandError(UsageMsg))
               ELSE Goto("prompt_email")
    /\ UNCHANGED <<options, realm, pw>>

InputCall(prompt, line) == Call("input", <<prompt, line>>, Some(line), NoExc)

EmailPrompts == Len(SelectSeq(log, LAMBDA c : c.op = "input" /\ c.args[1] = "Email: "))

\* Variant of EnteredEmail: a later entry does not rebind email.
EnteredEmail_keeps_first(line) == IF email = None THEN Some(line) ELSE email

\* email = input("Email: ")
EnteredEmail(line) == Some(line)

\* Variant of OnInvalidEntry: the rejection raises as in non-interactive mode.
OnInvalidEntry_aborts(line) ==
    /\ log' = log \o <<InputCall("Email: ", line), ValidateCall(line)>>
    /\ Raise(CommandError(InvalidEmailMsg))

\* except ValidationError: print("Invalid email address.", file=sys.stderr),
\* and the loop goes round again.
OnInvalidEntry(line) ==
    /\ log' = log \o <<InputCall("Email: ", line), ValidateCall(line),
                       Call("print", <<InvalidEmailMsg>>, None, NoExc)>>
    /\ Goto("prompt_email")

\* One iteration of the while True loop: a line is read and validated.
PromptEmail ==
    /\ pc = "prompt_email"
    /\ EmailPrompts < MaxPrompts
    /\ \E line \in Emails :
        /\ email' = EnteredEmail(line)
        /\ IF validate_email(line)
           THEN /\ log' = log \o <<InputCall("Email: ", line), ValidateCall(line)>>
                /\ Goto("prompt_name")
           ELSE OnInvalidEntry(line)
    /\ UNCHANGED <<options, realm, full_name, pw>>

\* full_name = input("Full name: ")
PromptFullName ==
    /\ pc = "prompt_name"
    /\ \E line \in FullNames :
        /\ full_name' = Some(line)
        /\ log' = Append(log, InputCall("Full name: ", line))
    /\ Goto("password")
    /\ UNCHANGED <<options, realm, email, pw>>

\* Variant of PasswordSource: --password tested before --password-file.
PasswordSource_explicit_first(opts) ==
    IF opts["password"] # None THEN "explicit"
    ELSE IF opts["password_file"] # None THEN "file"
    ELSE "generated"

\* The branch of the if/elif/else of lines 72-81 that is taken.
PasswordSource(opts) ==
    IF opts["password_file"] # None THEN "file"
    ELSE IF opts["password"] # None THEN "explicit"
    ELSE "generated"

\* Variant of IsUnusable: the None test left out.
IsUnusable_unchecked(r) == FALSE

\* if user_initial_password is None
IsUnusable(r) == r = None

\* Variant of Translate: except Exception in place of except IntegrityError.
Translate_any(e) == CommandError(ExistsMsg)

\* What leaves the try of lines 71-90 when e is raised inside it:
\* except IntegrityError: raise CommandError("User already exists.")
Translate(e) == IF e.type = "IntegrityError" THEN CommandError(ExistsMsg) ELSE e

OpenCall(raised) == Call("open", <<Val(options["password_file"])>>, None, raised)

\* Lines 72-81: the password is resolved, or the resolution raises.
ResolvePassword ==
    /\ pc = "password"
    /\ CASE PasswordSource(options) = "file" ->
              \/ /\ log' = Append(log, OpenCall(FileError))
                 /\ Raise(Translate(FileError))
                 /\ pw' = pw
              \/ \E contents \in FileContents :
                    /\ log' = log \o <<OpenCall(NoExc),
                                       Call("read", <<>>, Some(contents), NoExc)>>
                    /\ pw' = Some(strip(contents))
                    /\ Goto("delegate")
         [] PasswordSource(options) = "explicit" ->
              /\ pw' = options["password"]
              /\ log' = log
              /\ Goto("delegate")
         [] OTHER ->
              \E r \in InitialPasswordResults(Val(email)) :
                /\ log' = Append(log, Call("initial_password", <<Val(email)>>, r, NoExc))
                /\ IF IsUnusable(r)
                   THEN Raise(Translate(CommandError(UnusableMsg))) /\ pw' = pw
                   ELSE pw' = r /\ Goto("delegate")
    /\ UNCHANGED <<options, realm, email, full_name>>

\* The arguments of the do_create_user call of lines 82-88, the locals as they
\* are bound; the last is acting_user.
DelegateArgs == <<email, pw, realm, full_name, None>>

\* Variant of OnDelegateFailure: the call is made again.
OnDelegateFailure_retries(e) == Goto("delegate")

\* do_create_user raised e inside the try.
OnDelegateFailure(e) == Raise(Translate(e))

\* Lines 82-90: do_create_user returns or raises.
Delegate ==
    /\ pc = "delegate"
    /\ \/ /\ log' = Append(log, Call("do_create_user", DelegateArgs, None, NoExc))
          /\ Goto("returned")
       \/ \E e \in {IntegrityError, OtherError} :
            /\ log' = Append(log, Call("do_create_user", DelegateArgs, None, e))
            /\ OnDelegateFailure(e)
    /\ UNCHANGED <<options, realm, email, full_name, pw>>

Next ==
    \/ CheckTos
    \/ GetRealm
    \/ ResolveArgs
    \/ PromptEmail
    \/ PromptFullName
    \/ ResolvePassword
    \/ Delegate

Spec == Init /\ [][Next]_vars

\* The operator at the terminal eventually types a line at each prompt, and
\* every other step of the sequential program runs to its end.
FairSpec == Spec /\ WF_vars(Next)

\* ------------------------------------------------------------------- claims
Calls(op) == SelectSeq(log, LAMBDA c : c.op = op)
Called(op) == \E i \in DOMAIN log : log[i].op = op
Interactive == ~Has(options, "email") /\ ~Has(options, "full_name")
NonInteractive == Has(options, "email") /\ Has(options, "full_name")
ExactlyOnePositional == Has(options, "email") # Has(options, "full_name")

\* C1: an invocation with tos = false does nothing but fail with the ToS
\* error, whatever the other options are: no collaborator is ever called (no
\* get_realm, validate_email, input, open, initial_password or
\* do_create_user), no local is bound, and the only exception is the ToS
\* CommandError.
C1_TosFailsBeforeAnything ==
    ~options["tos"] =>
        /\ log = <<>>
        /\ realm = None /\ email = None /\ full_name = None /\ pw = None
        /\ \/ pc = "start" /\ exc = NoExc
           \/ pc = "raised" /\ exc = CommandError(TosMsg)

C1_Witness ==
    /\ ~options["tos"]
    /\ pc = "raised"
    /\ NonInteractive
    /\ options["password_file"] # None
    /\ options["password"] # None

\* C2: with tos accepted and an invalid email supplied together with a full
\* name, the invocation ends in CommandError("Invalid email address."): it is
\* never at a prompt, never reads input, never raises the usage error and
\* never calls do_create_user.
C2_InvalidPositionalEmailFails ==
    (options["tos"] /\ NonInteractive /\ ~validate_email(options["email"])) =>
        /\ \/ pc \in {"start", "get_realm", "resolve"} /\ exc = NoExc
           \/ pc = "raised" /\ exc = CommandError(InvalidEmailMsg)
        /\ ~Called("do_create_user")
        /\ ~Called("input")
        /\ ~Called("initial_password")

C2_Witness ==
    /\ options["tos"] /\ NonInteractive /\ ~validate_email(options["email"])
    /\ pc = "raised"
    /\ Called("validate_email")

\* C3: with tos accepted and exactly one of email / full_name a key of the
\* options, the invocation ends in the usage CommandError, without a prompt,
\* without a validate_email call and without a do_create_user call.
C3_OnePositionalIsUsageError ==
    (options["tos"] /\ ExactlyOnePositional) =>
        /\ \/ pc \in {"start", "get_realm", "resolve"} /\ exc = NoExc
           \/ pc = "raised" /\ exc = CommandError(UsageMsg)
        /\ ~Called("input")
        /\ ~Called("validate_email")
        /\ ~Called("do_create_user")

C3_Witness ==
    /\ options["tos"]
    /\ Has(options, "email") /\ ~Has(options, "full_name")
    /\ ~validate_email(options["email"])
    /\ pc = "raised"

\* The contents the password file was read to hold, when it was read.
FileRead == Calls("read")
GeneratedCalls == Calls("initial_password")

\* C4: password precedence file > explicit > generated.  Every
\* do_create_user call gets, with password_file set, the stripped contents
\* read from the file (also when --password is given); else, with password
\* set, that password as given; else what initial_password(email) returned.
\* initial_password is called only when both are None, and the file is
\* opened only when password_file is set.
C4_PasswordPrecedence ==
    /\ Called("initial_password") =>
          options["password_file"] = None /\ options["password"] = None
    /\ Called("open") => options["password_file"] # None
    /\ \A i \in DOMAIN log :
          log[i].op = "do_create_user" =>
              IF options["password_file"] # None
              THEN /\ Len(FileRead) = 1
                   /\ log[i].args[2] = Some(strip(Val(FileRead[1].ret)))
              ELSE IF options["password"] # None
              THEN /\ log[i].args[2] = options["password"]
                   /\ ~Called("open")
              ELSE /\ Len(GeneratedCalls) = 1
                   /\ GeneratedCalls[1].args = <<Val(email)>>
                   /\ log[i].args[2] = GeneratedCalls[1].ret

C4_Witness ==
    /\ options["password_file"] # None
    /\ options["password"] # None
    /\ Called("do_create_user")
    /\ pw # options["password"]

\* C5: the invocation ends in CommandError("User already exists.") exactly
\* when do_create_user raised IntegrityError; a failure to open the password
\* file, the unusable-password error and any other exception of
\* do_create_user leave handle() as they were raised.
C5_OnlyIntegrityErrorIsTranslated ==
    pc = "raised" /\ log # <<>> =>
        LET last == log[Len(log)]
        IN  /\ exc = CommandError(ExistsMsg) <=>
                  (last.op = "do_create_user" /\ last.raised = IntegrityError)
            /\ last.op = "do_create_user" /\ last.raised # IntegrityError =>
                  exc = last.raised
            /\ last.op = "open" => exc = last.raised /\ exc = FileError
            /\ last.op = "initial_password" => exc = CommandError(UnusableMsg)

C5_Witness ==
    /\ pc = "raised"
    /\ exc = CommandError(ExistsMsg)
    /\ Called("do_create_user")

EmailInputs == SelectSeq(log, LAMBDA c : c.op = "input" /\ c.args[1] = "Email: ")
NameInputs == SelectSeq(log, LAMBDA c : c.op = "input" /\ c.args[1] = "Full name: ")
Prints == Calls("print")
Rejected == SelectSeq(EmailInputs, LAMBDA c : ~validate_email(c.args[2]))
PastEmailLoop == pc \in {"prompt_name", "password", "delegate", "returned", "raised"}
PastNamePrompt == pc \in {"password", "delegate", "returned", "raised"}

\* The state of an interactive invocation (tos accepted, neither positional
\* supplied): rejected entries do not end it, the loop ends at the first valid
\* entry, and the full name is read once and taken as typed.
C6_PromptLoop ==
    (options["tos"] /\ Interactive) =>
        \* every rejected entry printed the error, and nothing else did
        /\ Len(Prints) = Len(Rejected)
        /\ \A i \in DOMAIN Prints : Prints[i].args = <<InvalidEmailMsg>>
        \* each entry is validated once; the full name never is
        /\ Len(Calls("validate_email")) = Len(EmailInputs)
        \* before and inside the loop nothing has been raised
        /\ pc \in {"start", "get_realm", "resolve", "prompt_email", "prompt_name"} =>
              exc = NoExc
        /\ pc \in {"start", "get_realm", "resolve"} => ~Called("input")
        \* inside the loop every entry so far was rejected
        /\ pc = "prompt_email" =>
              Len(Rejected) = Len(EmailInputs) /\ NameInputs = <<>>
        \* the loop ended at the first valid entry, which is the email
        /\ PastEmailLoop =>
              /\ EmailInputs # <<>>
              /\ Len(Rejected) = Len(EmailInputs) - 1
              /\ validate_email(EmailInputs[Len(EmailInputs)].args[2])
              /\ email = Some(EmailInputs[Len(EmailInputs)].args[2])
        /\ pc = "prompt_name" => NameInputs = <<>>
        \* the full name was prompted exactly once and taken as typed
        /\ PastNamePrompt =>
              /\ Len(NameInputs) = 1
              /\ full_name = NameInputs[1].ret
        \* an invocation that failed got as far as password resolution
        /\ pc = "raised" => Called("open") \/ Called("initial_password") \/ Called("do_create_user")

\* C6: in an interactive invocation a rejected email entry prints the error
\* and leads to another email prompt without ending the invocation; the loop
\* ends at the first valid entry; the full name is then prompted exactly once
\* and accepted unvalidated, the empty string included; and once a valid
\* email has been entered the invocation reaches password resolution.
C6_InteractiveLoop ==
    /\ []C6_PromptLoop
    /\ (options["tos"] /\ Interactive /\ pc = "prompt_name") ~> (pc = "password")

C6_Witness ==
    /\ options["tos"] /\ Interactive
    /\ pc = "password"
    /\ Len(Rejected) >= 2
    /\ full_name = Some("")

\* What remains of s when its first i - 1 and everything after its j-th
\* character are dropped, those being whitespace, and either nothing or
\* something that neither starts nor ends with whitespace remains.
IsTrimOf(t, s) ==
    \E i \in 1 .. Len(s) + 1 : \E j \in i - 1 .. Len(s) :
        /\ t = SubSeq(s, i, j)
        /\ \A k \in 1 .. i - 1 : s[k] \in Whitespace
        /\ \A k \in j + 1 .. Len(s) : s[k] \in Whitespace
        /\ t # <<>> => t[1] \notin Whitespace /\ t[Len(t)] \notin Whitespace

\* C7: the password resolved from the password file is the contents read,
\* less its leading and trailing whitespace, interior whitespace kept; the
\* contents "  secret123  \n" resolve to "secret123".
C7_FilePasswordIsTrimmed ==
    (Called("read") /\ pc \in {"delegate", "returned", "raised"}) =>
        LET contents == Val(FileRead[1].ret)
        IN  /\ pw # None
            /\ IsTrimOf(Val(pw), contents)
            /\ contents = SecretFile => pw = Some(Secret123)
            /\ contents = <<"s", " ", "s">> => pw = Some(<<"s", " ", "s">>)

C7_Witness ==
    /\ Called("read")
    /\ Val(FileRead[1].ret) = SecretFile
    /\ pc = "delegate"
    /\ pw = Some(Secret123)

Rank(p) ==
    CASE p = "start" -> 0
      [] p = "get_realm" -> 1
      [] p = "resolve" -> 2
      [] p = "prompt_email" -> 3
      [] p = "prompt_name" -> 4
      [] p = "password" -> 5
      [] p = "delegate" -> 6
      [] p = "returned" -> 7
      [] p = "raised" -> 7

\* A call that failed: it raised, or it is initial_password returning None.
Failed(c) == c.raised # NoExc \/ (c.op = "initial_password" /\ c.ret = None)
\* A rejection of a line typed at the email prompt.
PromptRejection(i) ==
    /\ log[i].op = "validate_email"
    /\ i > 1
    /\ log[i - 1].op = "input"

C8_Linear ==
    \* at most one do_create_user call, made with everything resolved
    /\ Len(Calls("do_create_user")) <= 1
    /\ Called("do_create_user") =>
          /\ email # None /\ full_name # None /\ pw # None /\ realm # None
          /\ log[Len(log)].op = "do_create_user"
          /\ pc \in {"returned", "raised"}
    /\ pc = "delegate" => email # None /\ full_name # None /\ pw # None /\ realm # None
    /\ pc = "password" => email # None /\ full_name # None /\ realm # None
    \* a failed call is the last call and has ended the invocation
    /\ \A i \in DOMAIN log :
          (Failed(log[i]) /\ ~PromptRejection(i)) =>
              i = Len(log) /\ pc = "raised"
    \* the final states: an error with a message, or success
    /\ pc = "raised" => exc.type # "" /\ exc.msg # ""
    /\ pc # "raised" => exc = NoExc

\* C8: the invocation moves forward only, through flags, email/name,
\* password, delegate, to success or a raised error (the email prompt alone
\* may repeat); do_create_user is called at most once, after email, full
\* name, password and realm are bound; a failed step other than a rejected
\* entry at the email prompt is never followed by another call and leaves
\* the invocation raised, with a message.
C8_LinearNoRetry ==
    /\ []C8_Linear
    /\ [][\/ Rank(pc') > Rank(pc)
          \/ pc = "prompt_email" /\ pc' = "prompt_email"]_vars

C8_Witness ==
    /\ pc = "raised"
    /\ Called("do_create_user")
    /\ exc = OtherError

\* C9: when initial_password returns None the invocation ends in
\* CommandError("Password is unusable.") and do_create_user is not called;
\* no do_create_user call is given None as the password.
C9_UnusablePasswordFails ==
    /\ (\E i \in DOMAIN log : log[i].op = "initial_password" /\ log[i].ret = None) =>
          /\ pc = "raised"
          /\ exc = CommandError(UnusableMsg)
          /\ ~Called("do_create_user")
    /\ \A i \in DOMAIN log :
          log[i].op = "do_create_user" => log[i].args[2] # None

C9_Witness ==
    /\ pc = "raised"
    /\ exc = CommandError(UnusableMsg)
    /\ options["password_file"] = None /\ options["password"] = None
    /\ Called("initial_password")

Validations == Calls("validate_email")

\* C10: every do_create_user call is given the email of the last
\* validate_email call, which accepted it (interactively, the last line typed
\* at the email prompt), the resolved full name (the positional one, or the
\* line typed at the name prompt), the realm get_realm returned, and
\* acting_user None.
C10_DelegateArguments ==
    \A i \in DOMAIN log :
        log[i].op = "do_create_user" =>
            LET a == log[i].args
                v == Validations[Len(Validations)]
            IN  /\ Validations # <<>>
                /\ v.raised = NoExc
                /\ a[1] = Some(v.args[1])
                /\ validate_email(Val(a[1]))
                /\ IF Interactive
                   THEN /\ a[1] = EmailInputs[Len(EmailInputs)].ret
                        /\ a[4] = NameInputs[Len(NameInputs)].ret
                   ELSE /\ a[1] = Some(options["email"])
                        /\ a[4] = Some(options["full_name"])
                /\ a[3] = Calls("get_realm")[1].ret
                /\ a[3] = Some(options["realm_id"])
                /\ a[5] = None

C10_Witness ==
    /\ Interactive
    /\ Called("do_create_user")
    /\ Len(Rejected) >= 1
    /\ pc = "returned"

====
